---- MODULE Spec2Model ----
(***************************************************************************)
(* Model of the GF1 device class, version 1.0.0 (src/gf1device.cpp, lines  *)
(* 204..502): a driver that programs an AD5932 waveform generator (SPI     *)
(* channel 0) and an AD5160 potentiometer (SPI channel 1) through a CP2130 *)
(* USB-to-SPI bridge.  Every public operation is one action; the bridge    *)
(* calls it issues are listed in program order, run against the modelled   *)
(* device, and kept in the variable trace.                                 *)
(***************************************************************************)
EXTENDS Integers, Sequences, FiniteSets, TLC

(***************************************************************************)
(* Program constants                                                       *)
(***************************************************************************)
\* The four range limits are declared in gf1device.h; their values are the
\* ones the error messages of setAmplitude and setFrequency spell out.
EPOUT == 1
FSTARTLSB == 192
FSTARTMSB == 208
AQUANTUM == 255
FQUANTUM == 16777216
MCLK == 50000
AMPLITUDE_MIN == 0
AMPLITUDE_MAX == 5
FREQUENCY_MIN == 0
FREQUENCY_MAX == 25000

(***************************************************************************)
(* Bounds of the model                                                     *)
(***************************************************************************)
\* The error counter is capped: an operation is taken only while the errors
\* it adds keep errcnt at or below MaxErrors.
MaxErrors == 1

(***************************************************************************)
(* Integer helpers for the C++ operators on unsigned values                *)
(***************************************************************************)
Pow2(n) == 2 ^ n

\* x >> n on an unsigned value
ShiftRight(x, n) == x \div Pow2(n)

RECURSIVE BitAnd(_, _)
BitAnd(x, y) ==
    IF x = 0 \/ y = 0 THEN 0
    ELSE 2 * BitAnd(x \div 2, y \div 2) + (IF x % 2 = 1 /\ y % 2 = 1 THEN 1 ELSE 0)

RECURSIVE BitOr(_, _)
BitOr(x, y) ==
    IF x = 0 THEN y
    ELSE IF y = 0 THEN x
    ELSE 2 * BitOr(x \div 2, y \div 2) + (IF x % 2 = 1 \/ y % 2 = 1 THEN 1 ELSE 0)

\* static_cast<uint8_t>(x) of a non-negative integer
ToUint8(x) == x % 256

\* number of significant bits of a non-negative integer below 2^31 (0 for 0)
BitLen(n) ==
    IF n = 0 THEN 0
    ELSE CHOOSE k \in 1 .. 31 : n \div Pow2(k - 1) = 1

(***************************************************************************)
(* IEEE-754 single precision, as far as the conversions use it.  A float   *)
(* is [m, e], standing for m * 2^e with 0 <= m <= 2^24; results are        *)
(* rounded to 24 significant bits, ties to even, as on targets that        *)
(* evaluate float expressions in float (x86-64, ARM).  All intermediate    *)
(* integers stay below 2^31.                                               *)
(***************************************************************************)
\* m * 2^e with the trailing zero bits of m moved into the exponent
Strip(m, e) ==
    IF m = 0 THEN [m |-> 0, e |-> 0]
    ELSE LET k == CHOOSE j \in 0 .. 30 : m % Pow2(j) = 0 /\ (m \div Pow2(j)) % 2 = 1
         IN [m |-> m \div Pow2(k), e |-> e + k]

\* the float holding the integer n exactly (|n| < 2^24, or a power of two)
FloatOfInt(n) == Strip(n, 0)

\* the float n / 8 (an input given in eighths)
FloatOfEighths(n) == Strip(n, -3)

\* round the integer p * 2^e (p < 2^31) to 24 significant bits, ties to even
RoundInt(p, e) ==
    IF p < 16777216 THEN Strip(p, e)
    ELSE LET k == BitLen(p) - 24
             q == p \div Pow2(k)
             r == p % Pow2(k)
             half == Pow2(k - 1)
             up == r > half \/ (r = half /\ q % 2 = 1)
         IN Strip(IF up THEN q + 1 ELSE q, e + k)

\* x * y in single precision
FloatMul(x, y) == RoundInt(x.m * y.m, x.e + y.e)

\* <<floor(b * 2^s / q), (b * 2^s) mod q>> by long division, six bits at a
\* time, for 0 <= b < q <= 2^24
RECURSIVE FracBits(_, _, _)
FracBits(b, q, s) ==
    IF s <= 6 THEN <<(b * Pow2(s)) \div q, (b * Pow2(s)) % q>>
    ELSE LET p == FracBits(b, q, s - 6)
         IN <<64 * p[1] + ((64 * p[2]) \div q), (64 * p[2]) % q>>

\* the least t with b * 2^t >= q, for 0 < b < q
LeadShift(b, q) ==
    LET t == BitLen(q) - BitLen(b)
    IN IF b * Pow2(t) >= q THEN t ELSE t + 1

\* x / y in single precision (y > 0, x >= 0)
FloatDiv(x, y) ==
    IF x.m = 0 THEN [m |-> 0, e |-> 0]
    ELSE LET a == x.m \div y.m
             b == x.m % y.m
             s == IF a > 0 THEN 24 - BitLen(a) ELSE LeadShift(b, y.m) + 23
             f == FracBits(b, y.m, s)
             t == a * Pow2(IF a > 0 THEN s ELSE 0) + f[1]
             up == 2 * f[2] > y.m \/ (2 * f[2] = y.m /\ t % 2 = 1)
         IN Strip(IF up THEN t + 1 ELSE t, x.e - y.e - s)

\* static_cast<unsigned>(x + 0.5): the sum is formed in double precision,
\* where it is exact, and the cast truncates (the values stay below 2^32, so
\* the width of uint32_t does not cut them)
AddHalfAndTruncate(x) ==
    IF x.e >= 0 THEN x.m * Pow2(x.e)
    ELSE IF -x.e > 30 THEN 0
    ELSE (x.m + Pow2(-x.e - 1)) \div Pow2(-x.e)

\* frequency in whole kHz
frequencyCode(frequency) ==
    AddHalfAndTruncate(
        FloatDiv(FloatMul(FloatOfInt(frequency), FloatOfInt(FQUANTUM)),
                 FloatOfInt(MCLK)))

\* amplitude in eighths of a volt
amplitudeCode(amplitude) ==
    ToUint8(AddHalfAndTruncate(
        FloatDiv(FloatMul(FloatOfEighths(amplitude), FloatOfInt(AQUANTUM)),
                 FloatOfInt(AMPLITUDE_MAX))))

(***************************************************************************)
(* State                                                                   *)
(***************************************************************************)
VARIABLES
    cp2130,     \* the hardware behind the bridge handle cp2130_
    errcnt,     \* the caller's error counter, threaded through every call
    errstr,     \* the caller's error log: the sequence of appended messages
    lastOp,     \* the operation that returned last
    lastArg,    \* its argument (0 when it takes none)
    trace,      \* its bridge calls, in order, each with the lines after it
    config,     \* the USB configuration handed to hardwareRevision
    revision    \* the string returned by hardwareRevision (character codes)

vars == <<cp2130, errcnt, errstr, lastOp, lastArg, trace, config, revision>>

Channels == {0, 1}
Tags == 0 .. 15

NoMode == [csmode |-> "", cfrq |-> "", cpol |-> "", cpha |-> ""]

(***************************************************************************)
(* Bridge calls.  A call is a record; usleep is listed among them so that  *)
(* the settling wait has its place in the order, though it is no bridge    *)
(* call and cannot fail.                                                   *)
(***************************************************************************)
Call(fn, ch, level, data, mode) ==
    [fn |-> fn, ch |-> ch, level |-> level, data |-> data, mode |-> mode]

setGPIO2(level) == Call("setGPIO2", 0, level, <<>>, NoMode)
setGPIO3(level) == Call("setGPIO3", 0, level, <<>>, NoMode)
selectCS(ch) == Call("selectCS", ch, FALSE, <<>>, NoMode)
disableCS(ch) == Call("disableCS", ch, FALSE, <<>>, NoMode)
spiWrite(data) == Call("spiWrite", EPOUT, FALSE, data, NoMode)
usleep == Call("usleep", 0, FALSE, <<>>, NoMode)
configureSPIMode(ch, mode) == Call("configureSPIMode", ch, FALSE, <<>>, mode)
disableSPIDelays(ch) == Call("disableSPIDelays", ch, FALSE, <<>>, NoMode)

\* The AD5932 takes 16-bit words: the top four bits address a register, the
\* low twelve bits are stored in it.
RECURSIVE WriteWords(_, _, _)
WriteWords(reg, data, i) ==
    IF i + 1 > Len(data) THEN reg
    ELSE WriteWords([reg EXCEPT ![data[i] \div 16] = (data[i] % 16) * 256 + data[i + 1]],
                    data, i + 2)

\* The effect of a successful bridge call on the hardware
Effect(d, c) ==
    CASE c.fn = "setGPIO2" -> [d EXCEPT !.gpio2 = c.level]
      [] c.fn = "setGPIO3" -> [d EXCEPT !.gpio3 = c.level]
      [] c.fn = "selectCS" -> [d EXCEPT !.cs = [k \in Channels |-> k = c.ch]]
      [] c.fn = "disableCS" -> [d EXCEPT !.cs[c.ch] = FALSE]
      [] c.fn = "spiWrite" ->
            IF d.cs[0] THEN [d EXCEPT !.reg = WriteWords(d.reg, c.data, 1)]
            ELSE IF d.cs[1] /\ Len(c.data) > 0
                 THEN [d EXCEPT !.wiper = c.data[Len(c.data)]]
                 ELSE d
      [] c.fn = "configureSPIMode" -> [d EXCEPT !.mode[c.ch] = c.mode]
      [] c.fn = "disableSPIDelays" -> [d EXCEPT !.delays[c.ch] = FALSE]
      [] OTHER -> d

\* The calls that go to the bridge and may fail
BridgeCalls(calls) == {i \in 1 .. Len(calls) : calls[i].fn # "usleep"}

\* Run the calls from position i on; the calls whose position is in fails
\* fail and leave the hardware as it was.  The result lists, per call, the
\* call, whether it succeeded, and the hardware after it.
RECURSIVE Run(_, _, _, _)
Run(d, calls, fails, i) ==
    IF i > Len(calls) THEN <<>>
    ELSE LET after == IF i \in fails THEN d ELSE Effect(d, calls[i])
         IN <<[call |-> calls[i], ok |-> i \notin fails, after |-> after] >>
            \o Run(after, calls, fails, i + 1)

\* What trace keeps of a step: the call, its outcome, and the lines after it
Lines(step) ==
    [call |-> step.call, ok |-> step.ok,
     gpio2 |-> step.after.gpio2, gpio3 |-> step.after.gpio3, cs |-> step.after.cs]

\* The messages a run appends to errstr: one per failed call
RECURSIVE Messages(_, _)
Messages(steps, i) ==
    IF i > Len(steps) THEN <<>>
    ELSE (IF steps[i].ok THEN <<>> ELSE <<"cp2130">>) \o Messages(steps, i + 1)

(***************************************************************************)
(* Private convenience functions                                           *)
(***************************************************************************)
\* variant: the second call repeats GPIO.2 and INTERRUPT is never driven low
clearCtrlInterrupt_OnlyCtrl == <<setGPIO2(FALSE), setGPIO2(FALSE)>>

clearCtrlInterrupt == <<setGPIO2(FALSE), setGPIO3(FALSE)>>
toggleCtrl == <<setGPIO2(TRUE), setGPIO2(FALSE)>>
toggleInterrupt == <<setGPIO3(TRUE), setGPIO3(FALSE)>>

(***************************************************************************)
(* Register frames                                                         *)
(***************************************************************************)
clearFrequencyFrame ==
    <<15, 223, 16, 0, 32, 0, 48, 0, 64, 0, 192, 0, 192, 0>>

clearAmplitudeFrame == <<0>>

setAmplitudeFrame(amplitude) == <<amplitudeCode(amplitude)>>

\* variant: the high register's top nibble is taken from bit 16 on
setFrequencyFrame_Shift16(frequencyCodeValue) ==
    <<16, 0, 32, 0, 48, 0, 64, 0,
      ToUint8(BitOr(FSTARTLSB, BitAnd(15, ShiftRight(frequencyCodeValue, 8)))),
      ToUint8(frequencyCodeValue),
      ToUint8(BitOr(FSTARTMSB, BitAnd(15, ShiftRight(frequencyCodeValue, 16)))),
      ToUint8(ShiftRight(frequencyCodeValue, 12))>>

\* variant: the control word is sent ahead of the frequency registers
setFrequencyFrame_WithControl(frequencyCodeValue) ==
    <<15, 223, 16, 0, 32, 0, 48, 0, 64, 0,
      ToUint8(BitOr(FSTARTLSB, BitAnd(15, ShiftRight(frequencyCodeValue, 8)))),
      ToUint8(frequencyCodeValue),
      ToUint8(BitOr(FSTARTMSB, BitAnd(15, ShiftRight(frequencyCodeValue, 20)))),
      ToUint8(ShiftRight(frequencyCodeValue, 12))>>

setFrequencyFrame(frequencyCodeValue) ==
    <<16, 0, 32, 0, 48, 0, 64, 0,
      ToUint8(BitOr(FSTARTLSB, BitAnd(15, ShiftRight(frequencyCodeValue, 8)))),
      ToUint8(frequencyCodeValue),
      ToUint8(BitOr(FSTARTMSB, BitAnd(15, ShiftRight(frequencyCodeValue, 20)))),
      ToUint8(ShiftRight(frequencyCodeValue, 12))>>

setSineWaveFrame == <<15, 223>>
setTriangleWaveFrame == <<13, 223>>

(***************************************************************************)
(* The bridge calls of each operation, in program order                    *)
(***************************************************************************)
\* variant: the closing deselection names channel 0
clearCalls_DisablesChannel0 ==
    clearCtrlInterrupt
    \o <<selectCS(0), spiWrite(clearFrequencyFrame), usleep,
         selectCS(1), spiWrite(clearAmplitudeFrame), usleep, disableCS(0)>>

clearCalls ==
    clearCtrlInterrupt
    \o <<selectCS(0), spiWrite(clearFrequencyFrame), usleep,
         selectCS(1), spiWrite(clearAmplitudeFrame), usleep, disableCS(1)>>

\* variant: the upper bound is excluded
amplitudeInRange_Exclusive(amplitude) ==
    ~(amplitude < AMPLITUDE_MIN * 8 \/ amplitude >= AMPLITUDE_MAX * 8)

amplitudeInRange(amplitude) ==
    ~(amplitude < AMPLITUDE_MIN * 8 \/ amplitude > AMPLITUDE_MAX * 8)

frequencyInRange(frequency) ==
    ~(frequency < FREQUENCY_MIN \/ frequency > FREQUENCY_MAX)

setAmplitudeCalls(amplitude) ==
    IF ~amplitudeInRange(amplitude) THEN <<>>
    ELSE <<selectCS(1), spiWrite(setAmplitudeFrame(amplitude)), usleep, disableCS(1)>>

\* variant: CTRL is pulsed while channel 0 is still selected
setFrequencyCalls_LatchesSelected(frequency) ==
    IF ~frequencyInRange(frequency) THEN <<>>
    ELSE clearCtrlInterrupt \o toggleInterrupt
         \o <<selectCS(0), spiWrite(setFrequencyFrame(frequencyCode(frequency))),
              usleep>>
         \o toggleCtrl
         \o <<disableCS(0)>>

setFrequencyCalls(frequency) ==
    IF ~frequencyInRange(frequency) THEN <<>>
    ELSE clearCtrlInterrupt \o toggleInterrupt
         \o <<selectCS(0), spiWrite(setFrequencyFrame(frequencyCode(frequency))),
              usleep, disableCS(0)>>
         \o toggleCtrl

\* variant: the control lines are not reset before the selection
setSineWaveCalls_NoReset ==
    <<selectCS(0), spiWrite(setSineWaveFrame), usleep, disableCS(0)>>
    \o toggleCtrl

setSineWaveCalls ==
    clearCtrlInterrupt
    \o <<selectCS(0), spiWrite(setSineWaveFrame), usleep, disableCS(0)>>
    \o toggleCtrl

\* variant: the deselection names channel 1
setTriangleWaveCalls_DisablesChannel1 ==
    clearCtrlInterrupt
    \o <<selectCS(0), spiWrite(setTriangleWaveFrame), usleep, disableCS(1)>>
    \o toggleCtrl

setTriangleWaveCalls ==
    clearCtrlInterrupt
    \o <<selectCS(0), spiWrite(setTriangleWaveFrame), usleep, disableCS(0)>>
    \o toggleCtrl

Channel0Mode == [csmode |-> "CSMODEPP", cfrq |-> "CFRQ12M", cpol |-> "CPOL1", cpha |-> "CPHA0"]
Channel1Mode == [csmode |-> "CSMODEPP", cfrq |-> "CFRQ12M", cpol |-> "CPOL0", cpha |-> "CPHA0"]

setupChannel0Calls == <<configureSPIMode(0, Channel0Mode), disableSPIDelays(0)>>
setupChannel1Calls == <<configureSPIMode(1, Channel1Mode), disableSPIDelays(1)>>

\* variant: start pulses INTERRUPT, as stop does
startCalls_PulsesInterrupt == clearCtrlInterrupt \o toggleInterrupt

startCalls == clearCtrlInterrupt \o toggleCtrl
stopCalls == clearCtrlInterrupt \o toggleInterrupt

(***************************************************************************)
(* Operations                                                              *)
(***************************************************************************)
\* The sets of failing calls an operation may meet when at most budget
\* bridge calls fail
FailureSets(calls, budget) ==
    IF budget = 0 THEN {{}}
    ELSE {F \in SUBSET BridgeCalls(calls) : Cardinality(F) <= budget}

\* variant: the operation returns at the first call that fails
Operate_ReturnsOnFailure(op, arg, calls, budget) ==
    \E issued \in {calls} :
      \E fails \in FailureSets(issued, budget) :
        \E last \in {IF fails = {} THEN Len(issued)
                      ELSE CHOOSE i \in fails : \A j \in fails : i <= j} :
          \E steps \in {SubSeq(Run(cp2130, issued, fails, 1), 1, last)} :
             /\ cp2130' = steps[Len(steps)].after
             /\ errcnt' = errcnt + Cardinality({i \in fails : i <= last})
             /\ errstr' = errstr \o Messages(steps, 1)
             /\ lastOp' = op
             /\ lastArg' = arg
             /\ trace' = [i \in 1 .. Len(steps) |-> Lines(steps[i])]
             /\ UNCHANGED <<config, revision>>

\* An operation that issues calls, of which at most budget fail.  The call
\* list and the run are each bound once, as values.
Operate(op, arg, calls, budget) ==
    \E issued \in {calls} :
      \E fails \in FailureSets(issued, budget) :
        \E steps \in {Run(cp2130, issued, fails, 1)} :
           /\ cp2130' = steps[Len(steps)].after
           /\ errcnt' = errcnt + Cardinality(fails)
           /\ errstr' = errstr \o Messages(steps, 1)
           /\ lastOp' = op
           /\ lastArg' = arg
           /\ trace' = [i \in 1 .. Len(steps) |-> Lines(steps[i])]
           /\ UNCHANGED <<config, revision>>

\* The branch of a setter that rejects its argument
Reject(op, arg, message) ==
    /\ errcnt' = errcnt + 1
    /\ errstr' = Append(errstr, message)
    /\ lastOp' = op
    /\ lastArg' = arg
    /\ trace' = <<>>
    /\ UNCHANGED <<cp2130, config, revision>>

clear(budget) == Operate("clear", 0, clearCalls, budget)

setAmplitude(amplitude, budget) ==
    IF ~amplitudeInRange(amplitude)
    THEN Reject("setAmplitude", amplitude,
                "In setAmplitude(): Amplitude must be between 0 and 5.")
    ELSE Operate("setAmplitude", amplitude, setAmplitudeCalls(amplitude), budget)

setFrequency(frequency, budget) ==
    IF ~frequencyInRange(frequency)
    THEN Reject("setFrequency", frequency,
                "In setFrequency(): Frequency must be between 0 and 25000.")
    ELSE Operate("setFrequency", frequency, setFrequencyCalls(frequency), budget)

setSineWave(budget) == Operate("setSineWave", 0, setSineWaveCalls, budget)
setTriangleWave(budget) == Operate("setTriangleWave", 0, setTriangleWaveCalls, budget)
setupChannel0(budget) == Operate("setupChannel0", 0, setupChannel0Calls, budget)
setupChannel1(budget) == Operate("setupChannel1", 0, setupChannel1Calls, budget)
start(budget) == Operate("start", 0, startCalls, budget)
stop(budget) == Operate("stop", 0, stopCalls, budget)

(***************************************************************************)
(* hardwareRevision: a pure function of the USB configuration.  Strings    *)
(* are sequences of character codes ('A' is 65, '0' is 48).                *)
(***************************************************************************)
\* operator<< of an int into a stream: the decimal digits, no padding
RECURSIVE Decimal(_)
Decimal(n) == IF n < 10 THEN <<48 + n>> ELSE Decimal(n \div 10) \o <<48 + (n % 10)>>

\* variant: the letter is counted from a major release of 1
hardwareRevision_LetterFromOne(c) ==
    LET major == IF c.majrel > 1 /\ c.majrel <= 27 THEN <<c.majrel + 65 - 1>> ELSE <<>>
        minor == IF c.majrel = 1 \/ c.minrel # 0 THEN Decimal(c.minrel) ELSE <<>>
    IN major \o minor

hardwareRevision(c) ==
    LET major == IF c.majrel > 1 /\ c.majrel <= 27 THEN <<c.majrel + 65 - 2>> ELSE <<>>
        minor == IF c.majrel = 1 \/ c.minrel # 0 THEN Decimal(c.minrel) ELSE <<>>
    IN major \o minor

ApplyHardwareRevision ==
    /\ lastOp = "none"
    /\ revision' = hardwareRevision(config)
    /\ lastOp' = "hardwareRevision"
    /\ UNCHANGED <<cp2130, errcnt, errstr, lastArg, trace, config>>

(***************************************************************************)
(* Specifications                                                          *)
(***************************************************************************)
\* Arguments tried by the callers: amplitudes in eighths of a volt,
\* frequencies in whole kHz; both sets reach past the legal range.
Amplitudes == {-1, 0, 40, 41}
Frequencies == {-1, 0, 25000, 25001}

\* The hardware after power-up: the control lines at any level, no chip
\* select enabled, registers cleared, wiper at midscale
PowerUp ==
    {[gpio2 |-> g2, gpio3 |-> g3,
      cs |-> [k \in Channels |-> FALSE],
      reg |-> [t \in Tags |-> 0],
      wiper |-> 128,
      mode |-> [k \in Channels |-> NoMode],
      delays |-> [k \in Channels |-> TRUE]] : g2 \in BOOLEAN, g3 \in BOOLEAN}

Init ==
    /\ cp2130 \in PowerUp
    /\ errcnt = 0
    /\ errstr = <<>>
    /\ lastOp = "none"
    /\ lastArg = 0
    /\ trace = <<>>
    /\ config = [majrel |-> 0, minrel |-> 0]
    /\ revision = <<>>

\* errors still allowed under the cap on the counter
Budget == MaxErrors - errcnt

Next ==
    \/ clear(Budget)
    \/ \E amplitude \in Amplitudes :
          (amplitudeInRange(amplitude) \/ Budget > 0) /\ setAmplitude(amplitude, Budget)
    \/ \E frequency \in Frequencies :
          (frequencyInRange(frequency) \/ Budget > 0) /\ setFrequency(frequency, Budget)
    \/ setSineWave(Budget)
    \/ setTriangleWave(Budget)
    \/ setupChannel0(Budget)
    \/ setupChannel1(Budget)
    \/ start(Budget)
    \/ stop(Budget)

Spec == Init /\ [][Next]_vars

(***************************************************************************)
(* Conversions alone: one setter call, without I/O failure, on an argument *)
(* drawn from a fine grid (lastArg holds the argument to come while no     *)
(* operation has returned yet).                                            *)
(***************************************************************************)
FineArguments == -1 .. 25001

InitQuant ==
    /\ cp2130 \in {d \in PowerUp : ~d.gpio2 /\ ~d.gpio3}
    /\ errcnt = 0
    /\ errstr = <<>>
    /\ lastOp = "none"
    /\ lastArg \in FineArguments
    /\ trace = <<>>
    /\ config = [majrel |-> 0, minrel |-> 0]
    /\ revision = <<>>

NextQuant ==
    \/ lastOp = "none" /\ setFrequency(lastArg, 0)
    \/ lastOp = "none" /\ setAmplitude(lastArg, 0)

SpecQuant == InitQuant /\ [][NextQuant]_vars

(***************************************************************************)
(* hardwareRevision alone, on every release pair                           *)
(***************************************************************************)
InitRev ==
    /\ cp2130 \in {d \in PowerUp : ~d.gpio2 /\ ~d.gpio3}
    /\ errcnt = 0
    /\ errstr = <<>>
    /\ lastOp = "none"
    /\ lastArg = 0
    /\ trace = <<>>
    /\ config \in [majrel : 0 .. 255, minrel : 0 .. 255]
    /\ revision = <<>>

NextRev == ApplyHardwareRevision

SpecRev == InitRev /\ [][NextRev]_vars

(***************************************************************************)
(* I/O errors alone: one operation, called with the caller's counter at    *)
(* any value up to the cap, in which any number of bridge calls fail.      *)
(***************************************************************************)
\* no operation issues more calls than setFrequency does
AnyNumber == Len(setFrequencyCalls(0))

InitFail ==
    /\ cp2130 \in PowerUp
    /\ errcnt \in 0 .. MaxErrors
    /\ errstr = <<>>
    /\ lastOp = "none"
    /\ lastArg = 0
    /\ trace = <<>>
    /\ config = [majrel |-> 0, minrel |-> 0]
    /\ revision = <<>>

NextFail ==
    \/ lastOp = "none" /\ clear(AnyNumber)
    \/ lastOp = "none" /\ \E amplitude \in Amplitudes : setAmplitude(amplitude, AnyNumber)
    \/ lastOp = "none" /\ \E frequency \in Frequencies : setFrequency(frequency, AnyNumber)
    \/ lastOp = "none" /\ setSineWave(AnyNumber)
    \/ lastOp = "none" /\ setTriangleWave(AnyNumber)
    \/ lastOp = "none" /\ setupChannel0(AnyNumber)
    \/ lastOp = "none" /\ setupChannel1(AnyNumber)
    \/ lastOp = "none" /\ start(AnyNumber)
    \/ lastOp = "none" /\ stop(AnyNumber)

SpecFail == InitFail /\ [][NextFail]_vars

(***************************************************************************)
(* Vocabulary of the properties                                            *)
(***************************************************************************)
\* positions of the trace t holding a call of function fn
CallsOf(t, fn) == {i \in 1 .. Len(t) : t[i].call.fn = fn}

\* every bridge call of the trace t succeeded
AllOk(t) == \A i \in 1 .. Len(t) : t[i].ok

\* no bridge call has failed since power-up
NoIOErrorYet == \A i \in 1 .. Len(errstr) : errstr[i] # "cp2130"

NoChipSelect == ~cp2130.cs[0] /\ ~cp2130.cs[1]

(***************************************************************************)
(* C1: setAmplitude and setFrequency do device I/O exactly when the value  *)
(* is inside the inclusive range (0..5 V, 0..25000 kHz).  Out of range:    *)
(* the counter goes up by exactly 1, one message is appended, no bridge    *)
(* call is issued and the device is unchanged.  In range, bounds included: *)
(* the driver adds no error of its own and the SPI write is issued.        *)
(***************************************************************************)
C1_RangeGatesIO ==
    [][lastOp' \in {"setAmplitude", "setFrequency"} =>
        LET inside == IF lastOp' = "setAmplitude"
                      THEN 0 <= lastArg' /\ lastArg' <= 5 * 8
                      ELSE 0 <= lastArg' /\ lastArg' <= 25000
            failed == Cardinality({i \in 1 .. Len(trace') : ~trace'[i].ok})
        IN /\ inside <=> trace' # <<>>
           /\ ~inside => /\ errcnt' = errcnt + 1
                         /\ Len(errstr') = Len(errstr) + 1
                         /\ cp2130' = cp2130
           /\ inside => /\ errcnt' = errcnt + failed
                        /\ Len(errstr') = Len(errstr) + failed
                        /\ Cardinality(CallsOf(trace', "spiWrite")) = 1
    ]_vars

C1_Witness ==
    /\ lastOp = "setAmplitude"
    /\ lastArg = 41
    /\ trace = <<>>
    /\ errcnt = 1
    /\ Len(errstr) = 1

DisablesAfter(t, i, ch) ==
    {j \in CallsOf(t, "disableCS") : j > i /\ t[j].call.ch = ch}

PairedSelections(t) ==
    \A i \in CallsOf(t, "selectCS") :
        Cardinality(DisablesAfter(t, i, t[i].call.ch)) = 1

C3_Original ==
    lastOp \in {"clear", "setAmplitude", "setFrequency", "setSineWave", "setTriangleWave"}
        => PairedSelections(trace)

(***************************************************************************)
(* C3 as amended: that holds in setAmplitude, setFrequency, setSineWave    *)
(* and setTriangleWave.  In clear only the selection of channel 1 is       *)
(* followed by one disableCS(1); the selection of channel 0 is followed by *)
(* no disableCS(0), but by selectCS(1), which disables channel 0.          *)
(***************************************************************************)
C3_SelectionsPaired ==
    /\ lastOp \in {"setAmplitude", "setFrequency", "setSineWave", "setTriangleWave"}
          => PairedSelections(trace)
    /\ lastOp = "clear" =>
          \A i \in CallsOf(trace, "selectCS") :
              IF trace[i].call.ch = 1
              THEN Cardinality(DisablesAfter(trace, i, 1)) = 1
              ELSE /\ DisablesAfter(trace, i, 0) = {}
                   /\ \E j \in CallsOf(trace, "selectCS") : j > i /\ trace[j].call.ch = 1

C3_Witness ==
    /\ lastOp = "clear"
    /\ Cardinality(CallsOf(trace, "selectCS")) = 2
    /\ Cardinality(CallsOf(trace, "disableCS")) = 1

(***************************************************************************)
(* C4: after clear returns without I/O error the chips hold: waveform      *)
(* sine, start frequency 0 in the low-order (tag 0xC) and in the           *)
(* high-order (tag 0xD) register, amplitude 0; channel 0 got one 14-byte   *)
(* frame and channel 1 one 1-byte frame.                                   *)
(***************************************************************************)
\* bit 9 of the control register selects the sine output
SineSelected(reg) == (reg[0] \div 512) % 2 = 1

\* the frame lengths written while channel ch alone was enabled
FramesTo(t, ch) ==
    {<<i, Len(t[i].call.data)>> : i \in {j \in CallsOf(t, "spiWrite") :
                                            t[j].cs[ch] /\ ~t[j].cs[1 - ch]}}

C4_ClearZeroesEverything ==
    (lastOp = "clear" /\ AllOk(trace)) =>
        /\ SineSelected(cp2130.reg)
        /\ cp2130.reg[12] = 0
        /\ cp2130.reg[13] = 0
        /\ cp2130.wiper = 0
        /\ \E i \in 1 .. Len(trace) : FramesTo(trace, 0) = {<<i, 14>>}
        /\ \E i \in 1 .. Len(trace) : FramesTo(trace, 1) = {<<i, 1>>}

(***************************************************************************)
(* C5: for every frequency code c that setFrequency produces, the frame's  *)
(* low-register byte pair is (0xC0 | bits 11..8 of c, bits 7..0 of c) and  *)
(* the high-register pair is (0xD0 | bits 23..20 of c, bits 19..12 of c),  *)
(* so the two 12-bit payloads concatenate back to c; 25000 kHz gives       *)
(* c = 8388608, low payload 0x000 under tag 0xC, high payload 0x800 under  *)
(* tag 0xD.                                                                *)
(***************************************************************************)
\* the data of the single SPI write of the trace t
FrameOf(t) == t[CHOOSE i \in CallsOf(t, "spiWrite") : TRUE].call.data

\* the 12-bit payload of a register byte pair
Payload(hi, lo) == (hi % 16) * 256 + lo

C5_FrequencyFieldsCarryCode ==
    (lastOp = "setFrequency" /\ trace # <<>>) =>
        LET frame == FrameOf(trace)
            n == Len(frame)
            c == frequencyCode(lastArg)
        IN /\ c \in 0 .. 8388608
           /\ frame[n - 3] = 192 + ((c \div 256) % 16)
           /\ frame[n - 2] = c % 256
           /\ frame[n - 1] = 208 + ((c \div 1048576) % 16)
           /\ frame[n] = (c \div 4096) % 256
           /\ Payload(frame[n - 1], frame[n]) * 4096 + Payload(frame[n - 3], frame[n - 2]) = c
           /\ cp2130.reg[13] * 4096 + cp2130.reg[12] = c
           /\ lastArg = 25000 =>
                 /\ c = 8388608
                 /\ <<frame[n - 3], frame[n - 2]>> = <<192, 0>>
                 /\ <<frame[n - 1], frame[n]>> = <<216, 0>>

C5_Witness ==
    /\ lastOp = "setFrequency"
    /\ lastArg = 25000
    /\ cp2130.reg[12] = 0
    /\ cp2130.reg[13] = 2048

(***************************************************************************)
(* C6 as stated: the frame setFrequency writes for an in-range frequency   *)
(* is exactly 14 bytes long: four 2-byte zero fields, then the 2-byte      *)
(* low-order and the 2-byte high-order start-frequency field.              *)
(***************************************************************************)
\* the frame is `zeroes` 2-byte fields with payload zero, addressed to the
\* registers 1, 2, ..., followed by the two start-frequency fields
FrequencyFrameShape(frame, zeroes) ==
    /\ Len(frame) = 2 * zeroes + 4
    /\ \A k \in 1 .. zeroes : frame[2 * k - 1] = 16 * k /\ frame[2 * k] = 0
    /\ frame[2 * zeroes + 1] \div 16 = 12
    /\ frame[2 * zeroes + 3] \div 16 = 13

C6_Original ==
    (lastOp = "setFrequency" /\ trace # <<>>) =>
        /\ Len(FrameOf(trace)) = 14
        /\ FrequencyFrameShape(FrameOf(trace), 4)

(***************************************************************************)
(* C6 as amended: the frame is exactly 12 bytes long: four 2-byte zero     *)
(* fields, then the 2-byte low-order and the 2-byte high-order             *)
(* start-frequency field.                                                  *)
(***************************************************************************)
C6_FrequencyFrameIs12Bytes ==
    (lastOp = "setFrequency" /\ trace # <<>>) =>
        /\ Len(FrameOf(trace)) = 12
        /\ FrequencyFrameShape(FrameOf(trace), 4)

C6_Witness ==
    /\ lastOp = "setFrequency"
    /\ lastArg = 25000
    /\ trace # <<>>
    /\ Len(FrameOf(trace)) = 12

(***************************************************************************)
(* C7: for every in-range input the code setAmplitude writes is the        *)
(* round-half-up nearest integer to v * 255 / 5 and lies in 0..255 (2.5    *)
(* gives 128, 5 gives 255), the code setFrequency writes is the            *)
(* round-half-up nearest integer to f * 2^24 / 50000 and lies in           *)
(* 0..2^24 - 1, and both codes are non-decreasing in the input.            *)
(***************************************************************************)
\* floor(v * 255 / 5 + 1/2) for v = n / 8
NearestAmplitudeCode(n) == (2 * 51 * n + 8) \div 16

\* floor(f * 2^24 / 50000 + 1/2); 2^24 / 50000 = 335 + 1701 / 3125
NearestFrequencyCode(f) == 335 * f + ((2 * 1701 * f + 3125) \div 6250)

C7_CodesAreNearest ==
    /\ (lastOp = "setAmplitude" /\ trace # <<>>) =>
          /\ cp2130.wiper = NearestAmplitudeCode(lastArg)
          /\ cp2130.wiper \in 0 .. 255
          /\ lastArg = 20 => cp2130.wiper = 128
          /\ lastArg = 40 => cp2130.wiper = 255
          /\ amplitudeInRange(lastArg + 1) =>
                cp2130.wiper <= amplitudeCode(lastArg + 1)
    /\ (lastOp = "setFrequency" /\ trace # <<>>) =>
          LET c == cp2130.reg[13] * 4096 + cp2130.reg[12]
          IN /\ c = NearestFrequencyCode(lastArg)
             /\ c \in 0 .. 16777215
             /\ frequencyInRange(lastArg + 1) => c <= frequencyCode(lastArg + 1)

(***************************************************************************)
(* C8: hardwareRevision returns the letter 'A' + (majrel - 2) when majrel  *)
(* is in 2..27 and no letter when majrel is 0 or 1, followed by the        *)
(* decimal minor number, which is appended only if minrel is non-zero or   *)
(* no letter was produced; (2,0) gives "A", (1,3) gives "3", (3,1) gives   *)
(* "B1" and (0,0) gives the empty string.                                  *)
(***************************************************************************)
IsDigit(ch) == ch \in 48 .. 57

\* the number a string of decimal digits denotes
RECURSIVE ParseDecimal(_)
ParseDecimal(str) ==
    IF str = <<>> THEN 0
    ELSE 10 * ParseDecimal(SubSeq(str, 1, Len(str) - 1)) + (str[Len(str)] - 48)

C8_RevisionString ==
    lastOp = "hardwareRevision" =>
        LET lettered == config.majrel \in 2 .. 27
            minor == IF lettered THEN Tail(revision) ELSE revision
        IN /\ lettered => revision # <<>> /\ revision[1] = 65 + (config.majrel - 2)
           /\ config.majrel \in {0, 1} => \A i \in 1 .. Len(revision) : IsDigit(revision[i])
           /\ \A i \in 1 .. Len(minor) : IsDigit(minor[i])
           /\ minor # <<>> =>
                 /\ ParseDecimal(minor) = config.minrel
                 /\ Len(minor) > 1 => minor[1] # 48
                 /\ config.minrel # 0 \/ ~lettered
           /\ (lettered /\ config.minrel = 0) => minor = <<>>
           /\ config = [majrel |-> 2, minrel |-> 0] => revision = <<65>>
           /\ config = [majrel |-> 1, minrel |-> 3] => revision = <<51>>
           /\ config = [majrel |-> 3, minrel |-> 1] => revision = <<66, 49>>
           /\ config = [majrel |-> 0, minrel |-> 0] => revision = <<>>

C8_Witness ==
    /\ lastOp = "hardwareRevision"
    /\ config = [majrel |-> 3, minrel |-> 1]
    /\ revision = <<66, 49>>

(***************************************************************************)
(* C9: whatever the levels of CTRL (GPIO.2) and INTERRUPT (GPIO.3) were    *)
(* before, after start, stop, in-range setFrequency, setSineWave,          *)
(* setTriangleWave or clear returns without I/O error both lines are low.  *)
(***************************************************************************)
C9_ControlLinesLowOnReturn ==
    (/\ lastOp \in {"start", "stop", "setFrequency", "setSineWave", "setTriangleWave", "clear"}
     /\ trace # <<>>
     /\ AllOk(trace))
        => ~cp2130.gpio2 /\ ~cp2130.gpio3

\* stop has returned clean although an earlier failure had left a line high
C9_Witness ==
    /\ lastOp = "stop"
    /\ AllOk(trace)
    /\ ~NoIOErrorYet
    /\ \E i \in 1 .. Len(trace) : trace[i].gpio3
    /\ ~cp2130.gpio2 /\ ~cp2130.gpio3

(***************************************************************************)
(* C10: start first drives both control lines low, then raises and lowers  *)
(* CTRL exactly once and never raises INTERRUPT; stop first drives both    *)
(* lines low, then raises and lowers INTERRUPT exactly once and never      *)
(* raises CTRL; neither changes a chip select or issues an SPI write.      *)
(***************************************************************************)
\* positions of the trace t that set the line fn to level
Sets(t, fn, level) == {i \in CallsOf(t, fn) : t[i].call.level = level}

\* t drives both lines low in its first two calls, then pulses the line
\* `pulsed` once and never raises the line `quiet`
ResetThenPulse(t, pulsed, quiet) ==
    /\ Len(t) >= 2
    /\ {t[1].call.fn, t[2].call.fn} = {"setGPIO2", "setGPIO3"}
    /\ ~t[1].call.level /\ ~t[2].call.level
    /\ \E up \in 3 .. Len(t) : \E down \in 3 .. Len(t) :
          /\ up < down
          /\ Sets(t, pulsed, TRUE) = {up}
          /\ Sets(t, pulsed, FALSE) \ {1, 2} = {down}
    /\ Sets(t, quiet, TRUE) = {}
    /\ \A i \in 1 .. Len(t) : t[i].call.fn \notin {"selectCS", "disableCS", "spiWrite"}
    /\ AllOk(t) => /\ \A i \in 3 .. Len(t) : ~t[i].gpio3 \/ quiet # "setGPIO3"
                   /\ \A i \in 3 .. Len(t) : ~t[i].gpio2 \/ quiet # "setGPIO2"
                   /\ \E i \in 3 .. Len(t) : IF pulsed = "setGPIO2" THEN t[i].gpio2 ELSE t[i].gpio3

C10_StartStopPulses ==
    /\ [](lastOp = "start" => ResetThenPulse(trace, "setGPIO2", "setGPIO3"))
    /\ [](lastOp = "stop" => ResetThenPulse(trace, "setGPIO3", "setGPIO2"))
    /\ [][lastOp' \in {"start", "stop"} =>
            /\ cp2130'.cs = cp2130.cs
            /\ cp2130'.reg = cp2130.reg
            /\ cp2130'.wiper = cp2130.wiper]_vars

C10_Witness ==
    /\ lastOp = "start"
    /\ AllOk(trace)
    /\ Len(trace) = 4
    /\ trace[3].gpio2 /\ ~trace[3].gpio3
    /\ ~trace[4].gpio2

(***************************************************************************)
(* C11 as stated: the driver never retries and never returns early on an   *)
(* I/O error: each operation issues the same fixed sequence of bridge      *)
(* calls, each exactly once, whether or not earlier calls in it failed     *)
(* (disableCS is still issued after a failed spiWrite), and the error      *)
(* counter after the operation equals the counter before it plus the       *)
(* number of failed bridge calls; no operation resets or decreases it.     *)
(***************************************************************************)
\* the functions an operation calls, in order; a setter that rejects its
\* argument calls none
FixedSequence(op, accepted) ==
    CASE op = "clear" ->
            <<"setGPIO2", "setGPIO3", "selectCS", "spiWrite", "usleep",
              "selectCS", "spiWrite", "usleep", "disableCS">>
      [] op = "setAmplitude" ->
            IF accepted THEN <<"selectCS", "spiWrite", "usleep", "disableCS">> ELSE <<>>
      [] op = "setFrequency" ->
            IF accepted
            THEN <<"setGPIO2", "setGPIO3", "setGPIO3", "setGPIO3", "selectCS",
                   "spiWrite", "usleep", "disableCS", "setGPIO2", "setGPIO2">>
            ELSE <<>>
      [] op \in {"setSineWave", "setTriangleWave"} ->
            <<"setGPIO2", "setGPIO3", "selectCS", "spiWrite", "usleep",
              "disableCS", "setGPIO2", "setGPIO2">>
      [] op \in {"setupChannel0", "setupChannel1"} ->
            <<"configureSPIMode", "disableSPIDelays">>
      [] op = "start" -> <<"setGPIO2", "setGPIO3", "setGPIO2", "setGPIO2">>
      [] op = "stop" -> <<"setGPIO2", "setGPIO3", "setGPIO3", "setGPIO3">>
      [] OTHER -> <<>>

\* the argument last passed lies in the setter's range
Accepted ==
    CASE lastOp = "setAmplitude" -> AMPLITUDE_MIN * 8 <= lastArg /\ lastArg <= AMPLITUDE_MAX * 8
      [] lastOp = "setFrequency" -> FREQUENCY_MIN <= lastArg /\ lastArg <= FREQUENCY_MAX
      [] OTHER -> TRUE

\* the number of failed calls in the trace t
Failed(t) == Cardinality({i \in 1 .. Len(t) : ~t[i].ok})

\* the trace is the fixed sequence of the operation, whatever failed
IssuesFixedSequence ==
    lastOp # "none" =>
        /\ [i \in 1 .. Len(trace) |-> trace[i].call.fn] = FixedSequence(lastOp, Accepted)
        /\ \A i \in CallsOf(trace, "spiWrite") :
              \E j \in CallsOf(trace, "disableCS") : j > i

C11_Original ==
    /\ []IssuesFixedSequence
    /\ [][lastOp' # "none" => errcnt' = errcnt + Failed(trace')]_vars

(***************************************************************************)
(* C11 as amended: the same, except that a setAmplitude or setFrequency    *)
(* that rejects its argument issues no bridge call and adds 1 to the       *)
(* counter; in every other case the counter grows by the number of failed  *)
(* bridge calls.                                                           *)
(***************************************************************************)
C11_NoRetryNoEarlyReturn ==
    /\ []IssuesFixedSequence
    /\ [][lastOp' # "none" =>
            /\ errcnt' = errcnt + Failed(trace') + (IF Accepted' THEN 0 ELSE 1)
            /\ errcnt' >= errcnt
            /\ Len(errstr') = Len(errstr) + (errcnt' - errcnt)]_vars

\* clear has returned after its first SPI write and two more calls failed,
\* with the counter, not zero before, grown by three
C11_Witness ==
    /\ lastOp = "clear"
    /\ Len(trace) = 9
    /\ ~trace[4].ok
    /\ Failed(trace) = 3
    /\ trace[9].call.fn = "disableCS" /\ trace[9].ok
    /\ errcnt = MaxErrors + 3

(***************************************************************************)
(* C12 as stated: every operation that writes a register frame             *)
(* (setAmplitude, setFrequency, setSineWave, setTriangleWave, clear)       *)
(* drives both control lines low before it selects a chip select, so that  *)
(* the SPI write is issued with both lines low whatever their level was    *)
(* before the call.                                                        *)
(***************************************************************************)
\* the calls of t that come before its first selection
BeforeSelection(t) ==
    {i \in 1 .. Len(t) : \A j \in CallsOf(t, "selectCS") : i < j}

\* in the operations ops: both lines are driven low before the first
\* selection, and every SPI write finds both lines low when the calls
\* that drive the lines have all succeeded
LinesLowBeforeSelection(ops) ==
    (lastOp \in ops /\ trace # <<>>) =>
        /\ Sets(trace, "setGPIO2", FALSE) \cap BeforeSelection(trace) # {}
        /\ Sets(trace, "setGPIO3", FALSE) \cap BeforeSelection(trace) # {}
        /\ \A w \in CallsOf(trace, "spiWrite") :
              (\A i \in 1 .. w : trace[i].call.fn \in {"setGPIO2", "setGPIO3"} => trace[i].ok)
                  => ~trace[w].gpio2 /\ ~trace[w].gpio3

LatchingOps == {"setFrequency", "setSineWave", "setTriangleWave"}

OnlyChannel0 == [ch \in Channels |-> ch = 0]

\* t ends with: select channel 0, write, wait, deselect channel 0, CTRL
\* high, CTRL low; each of these once, and CTRL is raised nowhere else
SelectWriteWaitDeselectLatch(t) ==
    /\ Len(t) >= 6
    /\ LET n == Len(t)
       IN  /\ t[n - 5].call = selectCS(0)
           /\ t[n - 4].call.fn = "spiWrite"
           /\ t[n - 3].call = usleep
           /\ t[n - 2].call = disableCS(0)
           /\ t[n - 1].call = setGPIO2(TRUE)
           /\ t[n].call = setGPIO2(FALSE)
           /\ CallsOf(t, "selectCS") = {n - 5}
           /\ CallsOf(t, "spiWrite") = {n - 4}
           /\ CallsOf(t, "usleep") = {n - 3}
           /\ CallsOf(t, "disableCS") = {n - 2}
           /\ Sets(t, "setGPIO2", TRUE) = {n - 1}

\* the write of t is issued, and completes, with channel 0 alone selected
WritesToChannel0Alone(t) ==
    \A w \in CallsOf(t, "spiWrite") :
        w > 1 /\ t[w - 1].cs = OnlyChannel0 /\ t[w].cs = OnlyChannel0

\* after no call of t is INTERRUPT high with a chip select enabled
InterruptLowWhileSelected(t) ==
    \A i \in 1 .. Len(t) : ~(t[i].gpio3 /\ \E ch \in Channels : t[i].cs[ch])

====
